---- MODULE Spec2Model ----
(***************************************************************************)
(* A model of the Vorbis decoder of symphonia-codec-vorbis (src/lib.rs):   *)
(* identification and setup header parsing, and the per-packet decode      *)
(* pipeline of VorbisDecoder (mode selection, floor read, non-zero         *)
(* propagation, residue read, inverse coupling, dot product, synthesis).   *)
(*                                                                         *)
(* The sibling modules (common, dsp, floor, residue, window, codebook) are *)
(* not part of the source at hand; what the model needs of them is taken   *)
(* from the specification and marked as such where it is defined.          *)
(***************************************************************************)
EXTENDS Integers, Sequences, FiniteSets, TLC

VARIABLES
    arg,            \* the input of the function under study (header, fields, pair)
    ret,            \* its result so far
    steps,          \* how many times it has been applied
    ident,          \* VorbisDecoder.ident
    modes,          \* VorbisDecoder.modes
    mappings,       \* VorbisDecoder.mappings
    lapping_state,  \* VorbisDecoder.dsp.lapping_state
    channels,       \* VorbisDecoder.dsp.channels
    buf,            \* the result of the last decode call and the output buffer
    shadow,         \* a second decoder that is given only the packets that decode
    hist            \* history of the calls: what the claims are stated against

vars == <<arg, ret, steps, ident, modes, mappings, lapping_state, channels, buf,
          shadow, hist>>

fnVars == <<arg, ret, steps>>
decVars == <<ident, modes, mappings, lapping_state, channels, buf, shadow, hist>>

(***************************************************************************)
(* Results: Rust's Result<T>, and a panic (an index out of bounds).        *)
(***************************************************************************)
Ok(v) == [kind |-> "Ok", val |-> v]

decode_error(msg) == [kind |-> "Err", err |-> "DecodeError", msg |-> msg]

unsupported_error(msg) == [kind |-> "Err", err |-> "Unsupported", msg |-> msg]

\* A read past the end of the buffer; `need` is the width of the read that failed.
IoError(need) == [kind |-> "Err", err |-> "IoError", msg |-> "end of stream", need |-> need]

Panic(msg) == [kind |-> "Panic", msg |-> msg]

IsOk(r) == r.kind = "Ok"

IsErr(r) == r.kind = "Err"

None == [kind |-> "None"]

NoDecoder == [kind |-> "None"]

\* The decoder is not running in the specifications that study one function.
DecoderIdle ==
    /\ ident = NoDecoder
    /\ modes = <<>>
    /\ mappings = <<>>
    /\ lapping_state = None
    /\ channels = <<>>
    /\ buf = None
    /\ shadow = None
    /\ hist = None

Min(a, b) == IF a < b THEN a ELSE b

Pow2(n) == 2 ^ n

(***************************************************************************)
(* Inverse coupling of one pair of spectral values (decode, section 4.3.5) *)
(***************************************************************************)
\* The largest magnitude of the spectral values tried.
MaxMag == 3

\* How often the transform is applied to one pair.
MaxApply == 2

CouplingVals == (0 - MaxMag)..MaxMag

\* A slip in the first quadrant: the sum instead of the difference.
InverseCoupleSumInFirstQuadrant(m, a) ==
    IF m > 0
    THEN IF a > 0 THEN <<m, m + a>> ELSE <<m + a, m>>
    ELSE IF a > 0 THEN <<m, m + a>> ELSE <<m - a, m>>

\* (new_m, new_a) of lines 258-273.
InverseCouple(m, a) ==
    IF m > 0
    THEN IF a > 0 THEN <<m, m - a>> ELSE <<m + a, m>>
    ELSE IF a > 0 THEN <<m, m + a>> ELSE <<m - a, m>>

InitCoupling ==
    /\ arg \in CouplingVals \X CouplingVals
    /\ ret = arg
    /\ steps = 0
    /\ DecoderIdle

CoupleStep ==
    /\ steps < MaxApply
    /\ ret' = InverseCouple(ret[1], ret[2])
    /\ steps' = steps + 1
    /\ UNCHANGED <<arg>>
    /\ UNCHANGED decVars

NextCoupling == CoupleStep

SpecCoupling == InitCoupling /\ [][NextCoupling]_vars

\* The pairs that two applications of the transform give back.
CouplingFixedBack(m, a) == (0 <= a /\ a <= m) \/ (m = 0 /\ a > 0)

\* C6 as stated: applying the inverse-coupling transform twice returns the
\* original pair (m, a), for every pair.
C6_Involution == steps = 2 => ret = arg

\* C6 amended: applying the transform twice returns the original pair exactly
\* when 0 <= a <= m, or m = 0 and a > 0; every other pair comes back changed.
C6_InvolutionOnlyInCone ==
    steps = 2 => (ret = arg <=> CouplingFixedBack(arg[1], arg[2]))

C6_Witness == steps = 2 /\ arg[1] > 0 /\ arg[2] > 0 /\ arg[2] < arg[1] /\ ret = arg

(***************************************************************************)
(* read_ident_header (lines 355-427)                                       *)
(*                                                                         *)
(* The header is given by its fields in reading order; `len` is how many   *)
(* of its ten reads the buffer can serve (a truncated header). The three   *)
(* bitrate words are read and ignored, so they carry no value here.        *)
(***************************************************************************)
VORBIS_PACKET_TYPE_IDENTIFICATION == 1

VORBIS_PACKET_TYPE_SETUP == 5

VORBIS_HEADER_PACKET_SIGNATURE == "vorbis"

VORBIS_VERSION == 0

VORBIS_BLOCKSIZE_MIN == 6

VORBIS_BLOCKSIZE_MAX == 13

\* The reads of read_ident_header: type, signature, version, channels, rate,
\* three bitrates, block sizes, framing.
NumIdentReads == 1 + 1 + 1 + 1 + 1 + 3 + 1 + 1

\* The nibbles tried in the packed block size byte.
IdentNibbles == {0, 5, 6, 7, 13, 14, 15}

IdentHeaders ==
    [ packet_type : {VORBIS_PACKET_TYPE_IDENTIFICATION, VORBIS_PACKET_TYPE_SETUP},
      signature   : {"vorbis", "theora"},
      version     : {0, 1},
      n_channels  : {0, 1, 255},
      sample_rate : {0, 8000},
      block_sizes : {16 * hi + lo : hi \in IdentNibbles, lo \in IdentNibbles},
      framing     : {0, 1},
      len         : 0..NumIdentReads ]

\* The header kept on success.
IdentHeader(n_channels, sample_rate, bs0_exp, bs1_exp) ==
    [ n_channels |-> n_channels, sample_rate |-> sample_rate,
      bs0_exp |-> bs0_exp, bs1_exp |-> bs1_exp ]

\* A slip: the order of the two block sizes is not checked.
read_ident_header_no_order_check(h) ==
    LET bs0_exp == h.block_sizes % 16
        bs1_exp == (h.block_sizes \div 16) % 16
    IN  IF h.len < 1 THEN IoError(8)
        ELSE IF h.packet_type # VORBIS_PACKET_TYPE_IDENTIFICATION
        THEN decode_error("vorbis: invalid packet type for identification header")
        ELSE IF h.len < 2 THEN IoError(48)
        ELSE IF h.signature # VORBIS_HEADER_PACKET_SIGNATURE
        THEN decode_error("vorbis: invalid header signature")
        ELSE IF h.len < 3 THEN IoError(32)
        ELSE IF h.version # VORBIS_VERSION
        THEN unsupported_error("vorbis: only vorbis 1 is supported")
        ELSE IF h.len < 4 THEN IoError(8)
        ELSE IF h.n_channels = 0
        THEN decode_error("vorbis: number of channels cannot be 0")
        ELSE IF h.len < 5 THEN IoError(32)
        ELSE IF h.sample_rate = 0
        THEN decode_error("vorbis: sample rate cannot be 0")
        ELSE IF h.len < 8 THEN IoError(32)
        ELSE IF h.len < 9 THEN IoError(8)
        ELSE IF bs0_exp < VORBIS_BLOCKSIZE_MIN \/ bs0_exp > VORBIS_BLOCKSIZE_MAX
        THEN decode_error("vorbis: blocksize_0 out-of-bounds")
        ELSE IF bs1_exp < VORBIS_BLOCKSIZE_MIN \/ bs1_exp > VORBIS_BLOCKSIZE_MAX
        THEN decode_error("vorbis: blocksize_1 out-of-bounds")
        ELSE IF h.len < 10 THEN IoError(8)
        ELSE IF h.framing # 1
        THEN decode_error("vorbis: ident header framing flag unset")
        ELSE Ok(IdentHeader(h.n_channels, h.sample_rate, bs0_exp, bs1_exp))

read_ident_header(h) ==
    LET bs0_exp == h.block_sizes % 16             \* (block_sizes & 0x0f) >> 0
        bs1_exp == (h.block_sizes \div 16) % 16   \* (block_sizes & 0xf0) >> 4
    IN  IF h.len < 1 THEN IoError(8)
        ELSE IF h.packet_type # VORBIS_PACKET_TYPE_IDENTIFICATION
        THEN decode_error("vorbis: invalid packet type for identification header")
        ELSE IF h.len < 2 THEN IoError(48)
        ELSE IF h.signature # VORBIS_HEADER_PACKET_SIGNATURE
        THEN decode_error("vorbis: invalid header signature")
        ELSE IF h.len < 3 THEN IoError(32)
        ELSE IF h.version # VORBIS_VERSION
        THEN unsupported_error("vorbis: only vorbis 1 is supported")
        ELSE IF h.len < 4 THEN IoError(8)
        ELSE IF h.n_channels = 0
        THEN decode_error("vorbis: number of channels cannot be 0")
        ELSE IF h.len < 5 THEN IoError(32)
        ELSE IF h.sample_rate = 0
        THEN decode_error("vorbis: sample rate cannot be 0")
        ELSE IF h.len < 8 THEN IoError(32)
        ELSE IF h.len < 9 THEN IoError(8)
        ELSE IF bs0_exp < VORBIS_BLOCKSIZE_MIN \/ bs0_exp > VORBIS_BLOCKSIZE_MAX
        THEN decode_error("vorbis: blocksize_0 out-of-bounds")
        ELSE IF bs1_exp < VORBIS_BLOCKSIZE_MIN \/ bs1_exp > VORBIS_BLOCKSIZE_MAX
        THEN decode_error("vorbis: blocksize_1 out-of-bounds")
        ELSE IF bs0_exp > bs1_exp
        THEN decode_error("vorbis: blocksize_0 exceeds blocksize_1")
        ELSE IF h.len < 10 THEN IoError(8)
        ELSE IF h.framing # 1
        THEN decode_error("vorbis: ident header framing flag unset")
        ELSE Ok(IdentHeader(h.n_channels, h.sample_rate, bs0_exp, bs1_exp))

InitIdent ==
    /\ arg \in IdentHeaders
    /\ ret = None
    /\ steps = 0
    /\ DecoderIdle

ReadIdentHeader ==
    /\ steps = 0
    /\ ret' = read_ident_header(arg)
    /\ steps' = 1
    /\ UNCHANGED <<arg>>
    /\ UNCHANGED decVars

NextIdent == ReadIdentHeader

SpecIdent == InitIdent /\ [][NextIdent]_vars

\* The two nibbles of the packed byte, as the specification names them.
LowNibble(b) == b % 16

HighNibble(b) == b \div 16

\* What the claim requires of a header for it to be accepted. A header cut short
\* has no framing byte (nor the fields after the cut).
IdentAcceptable(h) ==
    /\ h.len = NumIdentReads
    /\ h.packet_type = 1
    /\ h.signature = "vorbis"
    /\ h.version = 0
    /\ h.n_channels > 0
    /\ h.sample_rate > 0
    /\ LowNibble(h.block_sizes) \in 6..13
    /\ HighNibble(h.block_sizes) \in 6..13
    /\ LowNibble(h.block_sizes) <= HighNibble(h.block_sizes)
    /\ h.framing = 1

\* A header that is fine up to and including its block size byte being in range.
IdentFineToBlockSizes(h) ==
    /\ h.len >= 9
    /\ h.packet_type = 1
    /\ h.signature = "vorbis"
    /\ h.version = 0
    /\ h.n_channels > 0
    /\ h.sample_rate > 0
    /\ LowNibble(h.block_sizes) \in 6..13
    /\ HighNibble(h.block_sizes) \in 6..13

\* C7: read_ident_header succeeds exactly on the headers with packet type 1, the
\* signature "vorbis", version 0, channels > 0, sample rate > 0, both block size
\* nibbles in [6,13], bs0 <= bs1 and framing byte 1; the header returned has
\* n_channels in [1,255], bs0_exp in [6,13] and bs1_exp in [bs0_exp,13]; and a
\* header whose block sizes are in range with bs0 > bs1 (0x67) is rejected with
\* "blocksize_0 exceeds blocksize_1".
C7_IdentAcceptance ==
    steps = 1 =>
        /\ IsOk(ret) <=> IdentAcceptable(arg)
        /\ IsOk(ret) =>
              /\ ret.val.n_channels \in 1..255
              /\ ret.val.n_channels = arg.n_channels
              /\ ret.val.sample_rate = arg.sample_rate
              /\ ret.val.bs0_exp \in 6..13
              /\ ret.val.bs1_exp \in ret.val.bs0_exp..13
              /\ arg.block_sizes = 16 * ret.val.bs1_exp + ret.val.bs0_exp
        /\ (IdentFineToBlockSizes(arg)
              /\ LowNibble(arg.block_sizes) > HighNibble(arg.block_sizes))
           => ret = decode_error("vorbis: blocksize_0 exceeds blocksize_1")

C7_Witness ==
    /\ steps = 1
    /\ arg.block_sizes = 103      \* 0x67
    /\ IdentFineToBlockSizes(arg)
    /\ ret = decode_error("vorbis: blocksize_0 exceeds blocksize_1")

(***************************************************************************)
(* The bit reader (symphonia_core::io::BitReaderRtl) and ilog (common),    *)
(* as the specification describes them: within each byte the least         *)
(* significant bit is read first, and the first bit read is bit 0 of the   *)
(* value; a read past the end fails.                                       *)
(***************************************************************************)
\* The position of the highest set bit: ilog(0) = 0, ilog(1) = 1, ilog(7) = 3.
RECURSIVE ilog(_)
ilog(x) == IF x <= 0 THEN 0 ELSE 1 + ilog(x \div 2)

\* Bit i (from 0) of a buffer of bytes.
BitAt(bytes, i) == (bytes[(i \div 8) + 1] \div Pow2(i % 8)) % 2

RECURSIVE BitsValue(_, _, _)
BitsValue(bytes, pos, k) ==
    IF k = 0 THEN 0 ELSE BitAt(bytes, pos) + 2 * BitsValue(bytes, pos + 1, k - 1)

\* read_bits_leq32(k) at bit position pos: the value and the new position.
read_bits_leq32(bytes, pos, k) ==
    IF pos + k > 8 * Len(bytes)
    THEN IoError(k)
    ELSE Ok([v |-> BitsValue(bytes, pos, k), pos |-> pos + k])

read_bit(bytes, pos) == read_bits_leq32(bytes, pos, 1)

(***************************************************************************)
(* decode, section 4.3.1: packet type and mode number (lines 132-149)      *)
(***************************************************************************)
\* Modes (max. 64): the count is a 6-bit field plus one.
MaxModes == 64

\* Line 145: `if mode_number > self.modes.len()`.
mode_number_rejected(mode_number, modes_len) == mode_number > modes_len

\* The packet type bit and the mode number of a packet, for a decoder with
\* modes_len modes: Ok(mode number and bit position), an error, or the panic
\* of `self.modes[mode_number]` on an index out of bounds.
decode_mode_number(bytes, modes_len) ==
    LET type == read_bit(bytes, 0) IN
    IF ~IsOk(type) THEN type
    ELSE IF type.val.v = 1 THEN decode_error("vorbis: not an audio packet")
    ELSE
        LET num_modes == modes_len - 1
            mode_number == read_bits_leq32(bytes, type.val.pos, ilog(num_modes))
        IN  IF ~IsOk(mode_number) THEN mode_number
            ELSE IF mode_number_rejected(mode_number.val.v, modes_len)
            THEN decode_error("vorbis: invalid packet mode number")
            ELSE IF mode_number.val.v >= modes_len
            THEN Panic("index out of bounds")
            ELSE Ok([mode_number |-> mode_number.val.v, pos |-> mode_number.val.pos])

Bytes == 0..255

\* The empty packet and the packets of one byte: the packet type bit and the
\* mode number (at most 6 bits) lie in the first byte.
PacketHeads == {<<>>} \cup {<<b>> : b \in Bytes}

InitMode ==
    /\ arg \in [modes_len : 1..MaxModes, packet : PacketHeads]
    /\ ret = None
    /\ steps = 0
    /\ DecoderIdle

DecodeModeNumber ==
    /\ steps = 0
    /\ ret' = decode_mode_number(arg.packet, arg.modes_len)
    /\ steps' = 1
    /\ UNCHANGED <<arg>>
    /\ UNCHANGED decVars

NextMode == DecodeModeNumber

SpecMode == InitMode /\ [][NextMode]_vars

\* The mode index a packet carries: the ilog(modes_len - 1) bits after the first.
ModeIndexOf(a) == (a.packet[1] \div 2) % Pow2(ilog(a.modes_len - 1))

\* An audio packet long enough to hold its mode index.
HasModeIndex(a) == Len(a.packet) >= 1 /\ a.packet[1] % 2 = 0

\* C3: for every number of modes in 1..64 and every audio packet, decode reads
\* ilog(modes.len()-1) bits as the mode index, returns the InvalidMode decode
\* error whenever that index is not < modes.len(), and never indexes the mode
\* table with an index >= modes.len().
C3_ModeIndexInRange ==
    steps = 1 =>
        /\ ret.kind # "Panic"
        /\ (HasModeIndex(arg) /\ ModeIndexOf(arg) >= arg.modes_len)
              => ret = decode_error("vorbis: invalid packet mode number")
        /\ IsOk(ret) => ret.val.mode_number = ModeIndexOf(arg)
                        /\ ret.val.mode_number < arg.modes_len

(***************************************************************************)
(* decode, section 4.3.3: non-zero vector propagate (lines 204-214)        *)
(*                                                                         *)
(* Channels are numbered from 0 as in the source; do_not_decode is the     *)
(* vector of the channels' flags after the floors were read.               *)
(***************************************************************************)
ChannelCouple(magnitude_ch, angle_ch) ==
    [magnitude_ch |-> magnitude_ch, angle_ch |-> angle_ch]

\* A slip: only the magnitude channel's flag is cleared.
propagate_one_magnitude_only(couple, do_not_decode) ==
    IF do_not_decode[couple.magnitude_ch] # do_not_decode[couple.angle_ch]
    THEN [do_not_decode EXCEPT ![couple.magnitude_ch] = FALSE]
    ELSE do_not_decode

\* The body of the loop, lines 205-213.
propagate_one(couple, do_not_decode) ==
    IF do_not_decode[couple.magnitude_ch] # do_not_decode[couple.angle_ch]
    THEN [do_not_decode EXCEPT ![couple.magnitude_ch] = FALSE,
                               ![couple.angle_ch] = FALSE]
    ELSE do_not_decode

\* The loop over mapping.couplings, in order.
RECURSIVE non_zero_propagate(_, _)
non_zero_propagate(couplings, do_not_decode) ==
    IF couplings = <<>>
    THEN do_not_decode
    ELSE non_zero_propagate(Tail(couplings),
                            propagate_one(Head(couplings), do_not_decode))

\* The channels of the decoders tried.
NumPropChannels == 3

\* The couplings of the mappings tried.
MaxCouplings == 2

SeqsUpTo(S, n) == UNION {[1..k -> S] : k \in 0..n}

\* The couplings read_mapping_type0 accepts for n channels.
ValidCouples(n) ==
    {ChannelCouple(m, a) : <<m, a>> \in {p \in (0..n-1) \X (0..n-1) : p[1] # p[2]}}

InitPropagate ==
    /\ arg \in [ couplings : SeqsUpTo(ValidCouples(NumPropChannels), MaxCouplings),
                 unused    : [0..NumPropChannels-1 -> BOOLEAN] ]
    /\ ret = None
    /\ steps = 0
    /\ DecoderIdle

NonZeroPropagate ==
    /\ steps = 0
    /\ ret' = non_zero_propagate(arg.couplings, arg.unused)
    /\ steps' = 1
    /\ UNCHANGED <<arg>>
    /\ UNCHANGED decVars

NextPropagate == NonZeroPropagate

SpecPropagate == InitPropagate /\ [][NextPropagate]_vars

CoupleChannels(c) == {c.magnitude_ch, c.angle_ch}

\* The channels linked to the channels of S through the couplings.
RECURSIVE LinkedTo(_, _)
LinkedTo(S, couplings) ==
    LET T == S \cup UNION {CoupleChannels(couplings[i]) :
                              i \in {j \in DOMAIN couplings :
                                        CoupleChannels(couplings[j]) \cap S # {}}}
    IN  IF T = S THEN S ELSE LinkedTo(T, couplings)

ExactlyOneUnused(c, unused) == unused[c.magnitude_ch] # unused[c.angle_ch]

BothUnused(c, unused) == unused[c.magnitude_ch] /\ unused[c.angle_ch]

\* C10 as stated: after the propagation step, for every coupling: if exactly one
\* of its channels had an unused floor, both channels have do_not_decode = false;
\* if both had unused floors, both still have do_not_decode = true; and no flag
\* is set to true by the step.
C10_PropagationPerCoupling ==
    steps = 1 =>
        /\ \A i \in DOMAIN arg.couplings :
              LET c == arg.couplings[i] IN
              /\ ExactlyOneUnused(c, arg.unused)
                    => ~ret[c.magnitude_ch] /\ ~ret[c.angle_ch]
              /\ BothUnused(c, arg.unused)
                    => ret[c.magnitude_ch] /\ ret[c.angle_ch]
        /\ \A ch \in DOMAIN ret : ret[ch] => arg.unused[ch]

\* C10 amended: as stated, except that a coupling whose channels both had unused
\* floors keeps both flags true only if every channel linked to them through
\* couplings had an unused floor too (in particular when the coupling shares no
\* channel with another coupling).
C10_PropagationLinked ==
    steps = 1 =>
        /\ \A i \in DOMAIN arg.couplings :
              LET c == arg.couplings[i] IN
              /\ ExactlyOneUnused(c, arg.unused)
                    => ~ret[c.magnitude_ch] /\ ~ret[c.angle_ch]
              /\ (\A ch \in LinkedTo(CoupleChannels(c), arg.couplings) : arg.unused[ch])
                    => ret[c.magnitude_ch] /\ ret[c.angle_ch]
        /\ \A ch \in DOMAIN ret : ret[ch] => arg.unused[ch]

C10_Witness ==
    /\ steps = 1
    /\ Len(arg.couplings) = 2
    /\ ExactlyOneUnused(arg.couplings[1], arg.unused)
    /\ BothUnused(arg.couplings[2], arg.unused)
    /\ \A ch \in DOMAIN ret : ~ret[ch]

(***************************************************************************)
(* read_setup and the readers it calls (lines 437-724)                     *)
(*                                                                         *)
(* The setup header is given as the sequence of the values of its reads,   *)
(* in reading order: fs[pos] is the value of the next read. A read of no   *)
(* bits (coupling_bits = 0) takes no element and yields 0. A read past the *)
(* end of fs is the bit reader's error, which names the read that failed.  *)
(***************************************************************************)
AsU8(x) == x % 256

AsU16(x) == x % 65536

Field(fs, pos, name) ==
    IF pos > Len(fs) THEN IoError(name) ELSE Ok([v |-> fs[pos], pos |-> pos + 1])

\* read_bits_leq32(bits) for a number of bits computed by the caller.
FieldOfBits(fs, pos, name, bits) ==
    IF bits = 0 THEN Ok([v |-> 0, pos |-> pos]) ELSE Field(fs, pos, name)

SubMap(floor, residue) == [floor |-> floor, residue |-> residue]

Mapping(couplings, multiplex, submaps) ==
    [couplings |-> couplings, multiplex |-> multiplex, submaps |-> submaps]

Mode(block_flag, window_type, transform_type, mapping) ==
    [block_flag |-> block_flag, window_type |-> window_type,
     transform_type |-> transform_type, mapping |-> mapping]

\* A slip: a channel coupled with itself is let through.
invalid_coupling_range_only(magnitude_ch, angle_ch, max_ch) ==
    magnitude_ch > max_ch \/ angle_ch > max_ch

\* Line 622: the check of one channel coupling.
invalid_coupling(magnitude_ch, angle_ch, max_ch) ==
    magnitude_ch = angle_ch \/ magnitude_ch > max_ch \/ angle_ch > max_ch

\* Lines 616-627: the loop over the coupling steps.
RECURSIVE read_couplings(_, _, _, _, _, _)
read_couplings(fs, pos, n, coupling_bits, max_ch, couplings) ==
    IF n = 0 THEN Ok([v |-> couplings, pos |-> pos])
    ELSE
        LET m == FieldOfBits(fs, pos, "magnitude_ch", coupling_bits) IN
        IF ~IsOk(m) THEN m
        ELSE
            LET a == FieldOfBits(fs, m.val.pos, "angle_ch", coupling_bits) IN
            IF ~IsOk(a) THEN a
            ELSE IF invalid_coupling(AsU8(m.val.v), AsU8(a.val.v), max_ch)
            THEN decode_error("vorbis: invalid channel coupling")
            ELSE read_couplings(fs, a.val.pos, n - 1, coupling_bits, max_ch,
                     Append(couplings, ChannelCouple(AsU8(m.val.v), AsU8(a.val.v))))

\* Lines 639-647: the multiplex numbers of the channels, read from the stream.
RECURSIVE read_multiplex(_, _, _, _, _)
read_multiplex(fs, pos, n, num_submaps, multiplex) ==
    IF n = 0 THEN Ok([v |-> multiplex, pos |-> pos])
    ELSE
        LET mux == Field(fs, pos, "mux") IN
        IF ~IsOk(mux) THEN mux
        ELSE IF AsU8(mux.val.v) >= num_submaps
        THEN decode_error("vorbis: invalid channel multiplex")
        ELSE read_multiplex(fs, mux.val.pos, n - 1, num_submaps,
                            Append(multiplex, AsU8(mux.val.v)))

\* Lines 664 and 671: the checks of a submap's floor and residue.
table_index_invalid(index, max) == index >= max

\* Lines 657-676: the submaps.
RECURSIVE read_submaps(_, _, _, _, _, _)
read_submaps(fs, pos, n, max_floor, max_residue, submaps) ==
    IF n = 0 THEN Ok([v |-> submaps, pos |-> pos])
    ELSE
        LET unused == Field(fs, pos, "submap_unused") IN
        IF ~IsOk(unused) THEN unused
        ELSE
            LET floor == Field(fs, unused.val.pos, "submap_floor") IN
            IF ~IsOk(floor) THEN floor
            ELSE IF table_index_invalid(AsU8(floor.val.v), max_floor)
            THEN decode_error("vorbis: invalid floor for mapping")
            ELSE
                LET residue == Field(fs, floor.val.pos, "submap_residue") IN
                IF ~IsOk(residue) THEN residue
                ELSE IF table_index_invalid(AsU8(residue.val.v), max_residue)
                THEN decode_error("vorbis: invalid residue for mapping")
                ELSE read_submaps(fs, residue.val.pos, n - 1, max_floor, max_residue,
                         Append(submaps, SubMap(AsU8(floor.val.v), AsU8(residue.val.v))))

\* Lines 634-653, once the reserved bits are read.
read_mapping_type0_tables(fs, pos, audio_channels, max_floor, max_residue, num_submaps, couplings) ==
    LET multiplex ==
            IF num_submaps > 1
            THEN read_multiplex(fs, pos, audio_channels, num_submaps, <<>>)
            ELSE Ok([v |-> [i \in 1..audio_channels |-> 0], pos |-> pos])
    IN  IF ~IsOk(multiplex) THEN multiplex
        ELSE
            LET submaps == read_submaps(fs, multiplex.val.pos, num_submaps,
                                        max_floor, max_residue, <<>>)
            IN  IF ~IsOk(submaps) THEN submaps
                ELSE Ok([v |-> Mapping(couplings, multiplex.val.v, submaps.val.v),
                         pos |-> submaps.val.pos])

\* Lines 599-632, once the number of submaps is known.
read_mapping_type0_couplings(fs, pos, audio_channels, max_floor, max_residue, num_submaps) ==
    LET flag == Field(fs, pos, "coupling_flag") IN
    IF ~IsOk(flag) THEN flag
    ELSE
        LET steps_field ==
                IF flag.val.v = 1 THEN Field(fs, flag.val.pos, "coupling_steps")
                ELSE Ok([v |-> 0, pos |-> flag.val.pos])
        IN  IF ~IsOk(steps_field) THEN steps_field
            ELSE
                LET coupling_steps == AsU16(steps_field.val.v) + 1
                    max_ch == audio_channels - 1
                    coupling_bits == ilog(max_ch)
                    couplings ==
                        IF flag.val.v = 1
                        THEN read_couplings(fs, steps_field.val.pos, coupling_steps,
                                            coupling_bits, max_ch, <<>>)
                        ELSE Ok([v |-> <<>>, pos |-> flag.val.pos])
                IN  IF ~IsOk(couplings) THEN couplings
                    ELSE
                        LET reserved == Field(fs, couplings.val.pos, "reserved") IN
                        IF ~IsOk(reserved) THEN reserved
                        ELSE IF reserved.val.v # 0
                        THEN decode_error("vorbis: reserved mapping bits non-zero")
                        ELSE read_mapping_type0_tables(fs, reserved.val.pos,
                                 audio_channels, max_floor, max_residue,
                                 num_submaps, couplings.val.v)

read_mapping_type0(fs, pos, audio_channels, max_floor, max_residue) ==
    LET flag == Field(fs, pos, "submaps_flag") IN
    IF ~IsOk(flag) THEN flag
    ELSE
        LET field ==
                IF flag.val.v = 1 THEN Field(fs, flag.val.pos, "num_submaps")
                ELSE Ok([v |-> 0, pos |-> flag.val.pos])
        IN  IF ~IsOk(field) THEN field
            ELSE
                LET num_submaps == IF flag.val.v = 1 THEN AsU8(field.val.v) + 1 ELSE 1
                IN  read_mapping_type0_couplings(fs, field.val.pos, audio_channels,
                                                 max_floor, max_residue, num_submaps)

\* Lines 547-559.
read_mapping(fs, pos, audio_channels, max_floor, max_residue) ==
    LET mapping_type == Field(fs, pos, "mapping_type") IN
    IF ~IsOk(mapping_type) THEN mapping_type
    ELSE IF mapping_type.val.v = 0
    THEN read_mapping_type0(fs, mapping_type.val.pos, audio_channels,
                            max_floor, max_residue)
    ELSE decode_error("vorbis: invalid mapping type")

\* (0..count).map(|_| read_mapping(..)).collect()
RECURSIVE collect_mappings(_, _, _, _, _, _, _)
collect_mappings(fs, pos, n, audio_channels, max_floor, max_residue, acc) ==
    IF n = 0 THEN Ok([v |-> acc, pos |-> pos])
    ELSE
        LET m == read_mapping(fs, pos, audio_channels, max_floor, max_residue) IN
        IF ~IsOk(m) THEN m
        ELSE collect_mappings(fs, m.val.pos, n - 1, audio_channels, max_floor,
                              max_residue, Append(acc, m.val.v))

\* Lines 538-545.
read_mappings(fs, pos, audio_channels, max_floor, max_residue) ==
    LET count == Field(fs, pos, "mapping_count") IN
    IF ~IsOk(count) THEN count
    ELSE collect_mappings(fs, count.val.pos, count.val.v + 1, audio_channels,
                          max_floor, max_residue, <<>>)

\* Lines 695-724.
read_mode(fs, pos, max_mapping) ==
    LET block_flag == Field(fs, pos, "block_flag") IN
    IF ~IsOk(block_flag) THEN block_flag
    ELSE
    LET window_type == Field(fs, block_flag.val.pos, "window_type") IN
    IF ~IsOk(window_type) THEN window_type
    ELSE
    LET transform_type == Field(fs, window_type.val.pos, "transform_type") IN
    IF ~IsOk(transform_type) THEN transform_type
    ELSE
    LET mapping == Field(fs, transform_type.val.pos, "mode_mapping") IN
    IF ~IsOk(mapping) THEN mapping
    ELSE IF AsU16(window_type.val.v) # 0
    THEN decode_error("vorbis: invalid window type for mode")
    ELSE IF AsU16(transform_type.val.v) # 0
    THEN decode_error("vorbis: invalid transform type for mode")
    ELSE IF AsU8(mapping.val.v) >= max_mapping
    THEN decode_error("vorbis: invalid mode mapping")
    ELSE Ok([v |-> Mode(block_flag.val.v = 1, AsU16(window_type.val.v),
                        AsU16(transform_type.val.v), AsU8(mapping.val.v)),
             pos |-> mapping.val.pos])

RECURSIVE collect_modes(_, _, _, _, _)
collect_modes(fs, pos, n, max_mapping, acc) ==
    IF n = 0 THEN Ok([v |-> acc, pos |-> pos])
    ELSE
        LET m == read_mode(fs, pos, max_mapping) IN
        IF ~IsOk(m) THEN m
        ELSE collect_modes(fs, m.val.pos, n - 1, max_mapping, Append(acc, m.val.v))

\* Lines 561-564.
read_modes(fs, pos, max_mapping) ==
    LET count == Field(fs, pos, "mode_count") IN
    IF ~IsOk(count) THEN count
    ELSE collect_modes(fs, count.val.pos, count.val.v + 1, max_mapping, <<>>)

(***************************************************************************)
(* Codebooks, floors and residues are read by the sibling modules. Of a    *)
(* codebook the model keeps whether it is well formed (one read, 1 = well  *)
(* formed); of a floor and of a residue, its type and one codebook number, *)
(* which must be below max_codebook (an out-of-range book is an error).    *)
(***************************************************************************)
VorbisCodebook_read(fs, pos) ==
    LET cb == Field(fs, pos, "codebook") IN
    IF ~IsOk(cb) THEN cb
    ELSE IF cb.val.v # 1 THEN decode_error("vorbis: invalid codebook")
    ELSE Ok([v |-> "codebook", pos |-> cb.val.pos])

\* `(0..count).map(|_| VorbisCodebook::read(bs)).collect()`: n codebooks read
\* one after the other from pos and appended to acc, up to the first error.
\* The n reads are done as the first n \div 2 and then the others, which
\* keeps the nesting of the evaluation at log n for the 256 codebooks a
\* header can hold.
RECURSIVE collect_codebooks(_, _, _, _)
collect_codebooks(fs, pos, n, acc) ==
    IF n = 0 THEN Ok([v |-> acc, pos |-> pos])
    ELSE IF n = 1
    THEN
        LET cb == VorbisCodebook_read(fs, pos) IN
        IF ~IsOk(cb) THEN cb
        ELSE Ok([v |-> Append(acc, cb.val.v), pos |-> cb.val.pos])
    ELSE
        LET first == collect_codebooks(fs, pos, n \div 2, acc) IN
        IF ~IsOk(first) THEN first
        ELSE collect_codebooks(fs, first.val.pos, n - (n \div 2), first.val.v)

\* Lines 491-494.
read_codebooks(fs, pos) ==
    LET count == Field(fs, pos, "codebook_count") IN
    IF ~IsOk(count) THEN count
    ELSE collect_codebooks(fs, count.val.pos, count.val.v + 1, <<>>)

RECURSIVE read_time_domain_transform_values(_, _, _)
read_time_domain_transform_values(fs, pos, n) ==
    IF n = 0 THEN Ok([v |-> "unit", pos |-> pos])
    ELSE
        LET t == Field(fs, pos, "tdt") IN
        IF ~IsOk(t) THEN t
        ELSE IF t.val.v # 0 THEN decode_error("vorbis: invalid time domain tranform")
        ELSE read_time_domain_transform_values(fs, t.val.pos, n - 1)

\* Lines 496-507.
read_time_domain_transforms(fs, pos) ==
    LET count == Field(fs, pos, "tdt_count") IN
    IF ~IsOk(count) THEN count
    ELSE read_time_domain_transform_values(fs, count.val.pos, count.val.v + 1)

\* FloorType0::try_read and Floor1::try_read, and Residue::try_read.
try_read_books(fs, pos, name, type, max_codebook, msg) ==
    LET book == Field(fs, pos, name) IN
    IF ~IsOk(book) THEN book
    ELSE IF AsU8(book.val.v) >= max_codebook THEN decode_error(msg)
    ELSE Ok([v |-> [type |-> type, book |-> AsU8(book.val.v)], pos |-> book.val.pos])

\* Lines 514-522.
read_floor(fs, pos, max_codebook) ==
    LET floor_type == Field(fs, pos, "floor_type") IN
    IF ~IsOk(floor_type) THEN floor_type
    ELSE IF floor_type.val.v \in {0, 1}
    THEN try_read_books(fs, floor_type.val.pos, "floor_book", floor_type.val.v,
                        max_codebook, "vorbis: floor, invalid codebook")
    ELSE decode_error("vorbis: invalid floor type")

RECURSIVE collect_floors(_, _, _, _, _)
collect_floors(fs, pos, n, max_codebook, acc) ==
    IF n = 0 THEN Ok([v |-> acc, pos |-> pos])
    ELSE
        LET f == read_floor(fs, pos, max_codebook) IN
        IF ~IsOk(f) THEN f
        ELSE collect_floors(fs, f.val.pos, n - 1, max_codebook, Append(acc, f.val.v))

\* Lines 509-512.
read_floors(fs, pos, max_codebook) ==
    LET count == Field(fs, pos, "floor_count") IN
    IF ~IsOk(count) THEN count
    ELSE collect_floors(fs, count.val.pos, count.val.v + 1, max_codebook, <<>>)

\* Lines 529-536.
read_residue(fs, pos, max_codebook) ==
    LET residue_type == Field(fs, pos, "residue_type") IN
    IF ~IsOk(residue_type) THEN residue_type
    ELSE IF AsU16(residue_type.val.v) \in {0, 1, 2}
    THEN try_read_books(fs, residue_type.val.pos, "residue_book",
                        AsU16(residue_type.val.v), max_codebook,
                        "vorbis: residue, invalid codebook")
    ELSE decode_error("vorbis: invalid residue type")

RECURSIVE collect_residues(_, _, _, _, _)
collect_residues(fs, pos, n, max_codebook, acc) ==
    IF n = 0 THEN Ok([v |-> acc, pos |-> pos])
    ELSE
        LET r == read_residue(fs, pos, max_codebook) IN
        IF ~IsOk(r) THEN r
        ELSE collect_residues(fs, r.val.pos, n - 1, max_codebook, Append(acc, r.val.v))

\* Lines 524-527.
read_residues(fs, pos, max_codebook) ==
    LET count == Field(fs, pos, "residue_count") IN
    IF ~IsOk(count) THEN count
    ELSE collect_residues(fs, count.val.pos, count.val.v + 1, max_codebook, <<>>)

Setup(codebooks, floors, residues, mappings_, modes_) ==
    [codebooks |-> codebooks, floors |-> floors, residues |-> residues,
     mappings |-> mappings_, modes |-> modes_]

\* Lines 468-488: the mappings, the modes and the framing flag.
read_setup_mappings_modes(fs, pos, n_channels, codebooks, floors, residues) ==
    LET mappings_ == read_mappings(fs, pos, n_channels,
                                   AsU8(Len(floors)), AsU8(Len(residues)))
    IN  IF ~IsOk(mappings_) THEN mappings_
        ELSE
        LET modes_ == read_modes(fs, mappings_.val.pos, AsU8(Len(mappings_.val.v)))
        IN  IF ~IsOk(modes_) THEN modes_
            ELSE
            LET framing == Field(fs, modes_.val.pos, "framing") IN
            IF ~IsOk(framing) THEN framing
            ELSE IF framing.val.v # 1
            THEN decode_error("vorbis: setup header framing flag unset")
            ELSE Ok(Setup(codebooks, floors, residues, mappings_.val.v, modes_.val.v))

\* Lines 463 and 466: `codebooks.len() as u8`, the bound given to the floors
\* and to the residues.
codebooks_len_as_u8(codebooks) == AsU8(Len(codebooks))

\* Lines 456-466: the codebooks, the time domain transforms, the floors and the
\* residues.
read_setup_tables(fs, pos, n_channels) ==
    LET codebooks == read_codebooks(fs, pos) IN
    IF ~IsOk(codebooks) THEN codebooks
    ELSE
    LET tdt == read_time_domain_transforms(fs, codebooks.val.pos) IN
    IF ~IsOk(tdt) THEN tdt
    ELSE
    LET floors == read_floors(fs, tdt.val.pos, codebooks_len_as_u8(codebooks.val.v)) IN
    IF ~IsOk(floors) THEN floors
    ELSE
    LET residues == read_residues(fs, floors.val.pos, codebooks_len_as_u8(codebooks.val.v)) IN
    IF ~IsOk(residues) THEN residues
    ELSE read_setup_mappings_modes(fs, residues.val.pos, n_channels,
                                   codebooks.val.v, floors.val.v, residues.val.v)

\* Lines 437-489; ident.n_channels is all it uses of the identification header.
read_setup(fs, n_channels) ==
    LET packet_type == Field(fs, 1, "packet_type") IN
    IF ~IsOk(packet_type) THEN packet_type
    ELSE IF packet_type.val.v # VORBIS_PACKET_TYPE_SETUP
    THEN decode_error("vorbis: invalid packet type for setup header")
    ELSE
    LET packet_sig_buf == Field(fs, packet_type.val.pos, "signature") IN
    IF ~IsOk(packet_sig_buf) THEN packet_sig_buf
    ELSE IF packet_sig_buf.val.v # VORBIS_HEADER_PACKET_SIGNATURE
    THEN decode_error("vorbis: invalid setup header signature")
    ELSE read_setup_tables(fs, packet_sig_buf.val.pos, n_channels)

(***************************************************************************)
(* read_setup on every setup header built from the values below: a header  *)
(* grows by the read that read_setup found missing, so every header tried  *)
(* is cut at a read boundary or is complete.                               *)
(***************************************************************************)
\* The largest floor, residue and multiplex number tried in a mapping.
MaxIndexField == 2

\* The channel counts of the identification headers tried.
SetupChannels == {1, 2, 3}

\* The values tried for each read of the setup header.
FieldVals(name, n_channels) ==
    CASE name = "packet_type"    -> {VORBIS_PACKET_TYPE_SETUP, VORBIS_PACKET_TYPE_IDENTIFICATION}
      [] name = "signature"      -> {"vorbis", "theora"}
      [] name = "codebook_count" -> {0}
      [] name = "codebook"       -> {0, 1}
      [] name = "tdt_count"      -> {0}
      [] name = "tdt"            -> {0, 1}
      [] name = "floor_count"    -> {0, 1}
      [] name = "floor_type"     -> {1, 2}
      [] name = "floor_book"     -> {0, 1}
      [] name = "residue_count"  -> {1}
      [] name = "residue_type"   -> {2, 3}
      [] name = "residue_book"   -> {0, 1}
      [] name = "mapping_count"  -> {0}
      [] name = "mapping_type"   -> {0, 1}
      [] name = "submaps_flag"   -> {0, 1}
      [] name = "num_submaps"    -> {1}
      [] name = "coupling_flag"  -> {0, 1}
      [] name = "coupling_steps" -> {0}
      [] name = "magnitude_ch"   -> 0..(Pow2(ilog(n_channels - 1)) - 1)
      [] name = "angle_ch"       -> 0..(Pow2(ilog(n_channels - 1)) - 1)
      [] name = "reserved"       -> {0, 1}
      [] name = "mux"            -> 0..MaxIndexField
      [] name = "submap_unused"  -> {0}
      [] name = "submap_floor"   -> 0..MaxIndexField
      [] name = "submap_residue" -> 0..MaxIndexField
      [] name = "mode_count"     -> {0, 1}
      [] name = "block_flag"     -> {1}
      [] name = "window_type"    -> {0, 1}
      [] name = "transform_type" -> {0, 1}
      [] name = "mode_mapping"   -> {0, 1}
      [] name = "framing"        -> {0, 1}

\* arg.fs is the header, arg.names the read each of its values was given to.
InitSetup ==
    /\ arg \in [n_channels : SetupChannels, fs : {<<>>}, names : {<<>>}]
    /\ ret = read_setup(<<>>, arg.n_channels)
    /\ steps = 0
    /\ DecoderIdle

\* The header one read longer, and read_setup on it.
ReadSetup ==
    /\ IsErr(ret) /\ ret.err = "IoError"
    /\ \E v \in FieldVals(ret.need, arg.n_channels) :
          /\ arg' = [arg EXCEPT !.fs = Append(@, v), !.names = Append(@, ret.need)]
          /\ ret' = read_setup(Append(arg.fs, v), arg.n_channels)
    /\ steps' = steps + 1
    /\ UNCHANGED decVars

NextSetup == ReadSetup

SpecSetup == InitSetup /\ [][NextSetup]_vars

\* The vector v of a Vec, as a set of its elements.
Elems(v) == {v[i] : i \in DOMAIN v}

MappingInRange(m, n_channels, floors_len, residues_len) ==
    /\ \A c \in Elems(m.couplings) :
          /\ c.magnitude_ch # c.angle_ch
          /\ c.magnitude_ch < n_channels
          /\ c.angle_ch < n_channels
    /\ Len(m.multiplex) = n_channels
    /\ \A mux \in Elems(m.multiplex) : mux < Len(m.submaps)
    /\ \A sm \in Elems(m.submaps) : sm.floor < floors_len /\ sm.residue < residues_len

ModeInRange(mode, mappings_len) ==
    /\ mode.mapping < mappings_len
    /\ mode.window_type = 0
    /\ mode.transform_type = 0

SetupInRange(setup, n_channels) ==
    /\ \A m \in Elems(setup.mappings) :
          MappingInRange(m, n_channels, Len(setup.floors), Len(setup.residues))
    /\ \A mode \in Elems(setup.modes) : ModeInRange(mode, Len(setup.mappings))

\* The value of the last read called `name` before read i of the header.
LastBefore(a, i, name) ==
    LET js == {j \in 1..(i-1) : a.names[j] = name}
    IN  a.fs[CHOOSE j \in js : \A k \in js : k <= j]

\* Read i of the header holds a reference out of range, a channel coupled with
\* itself, or a window or transform type other than 0.
OutOfRangeAt(a, i) ==
    \/ /\ a.names[i] = "angle_ch"
       /\ \/ a.fs[i] = a.fs[i-1]
          \/ a.fs[i] >= a.n_channels
          \/ a.fs[i-1] >= a.n_channels
    \/ a.names[i] = "mux" /\ a.fs[i] >= LastBefore(a, i, "num_submaps") + 1
    \/ a.names[i] = "submap_floor" /\ a.fs[i] >= LastBefore(a, i, "floor_count") + 1
    \/ a.names[i] = "submap_residue" /\ a.fs[i] >= LastBefore(a, i, "residue_count") + 1
    \/ a.names[i] = "mode_mapping" /\ a.fs[i] >= LastBefore(a, i, "mapping_count") + 1
    \/ a.names[i] = "window_type" /\ a.fs[i] # 0
    \/ a.names[i] = "transform_type" /\ a.fs[i] # 0
    \* one channel: the coupling read is (0, 0), a channel coupled with itself
    \/ a.names[i] = "coupling_flag" /\ a.fs[i] = 1 /\ a.n_channels = 1

\* C8: in every setup read_setup returns, every coupling has two different
\* channels below n_channels, multiplex has n_channels entries each below the
\* number of submaps, every submap's floor and residue are below the numbers of
\* floors and residues, and every mode has a mapping below the number of
\* mappings and window and transform type 0; a setup header that breaks one of
\* these is not accepted.
C8_SetupReferencesInRange ==
    /\ IsOk(ret) => SetupInRange(ret.val, arg.n_channels)
    /\ (\E i \in DOMAIN arg.fs : OutOfRangeAt(arg, i)) => IsErr(ret)

C8_Witness ==
    /\ IsOk(ret)
    /\ arg.n_channels = 3
    /\ Len(ret.val.floors) = 2
    /\ Len(ret.val.modes) = 2
    /\ \E m \in Elems(ret.val.mappings) :
          /\ Len(m.couplings) = 1
          /\ Len(m.submaps) = 2
          /\ \E c \in DOMAIN m.multiplex : m.multiplex[c] = 1
          /\ \E sm \in Elems(m.submaps) : sm.floor = 1 /\ sm.residue = 1

(***************************************************************************)
(* The decoder: try_new, reset and decode (lines 61-323)                   *)
(*                                                                         *)
(* A channel's buffers (floor, residue, overlap) are each followed through *)
(* one representative value: the floor curve and the residue by the value  *)
(* of one spectral bin, the overlap by the block it is the right half of   *)
(* (its block size n, the bin's value v, and the decode call pkt that      *)
(* stored it; n = 0 and v = 0 for the zeros of a new or reset channel).    *)
(* An output channel is followed through the two parts that are added: the *)
(* stored overlap (prev) and the left half of the new block (cur).         *)
(***************************************************************************)
Some(v) == [kind |-> "Some", val |-> v]

LappingState(prev_block_size, prev_win_right) ==
    [prev_block_size |-> prev_block_size, prev_win_right |-> prev_win_right]

ZeroOverlap == [n |-> 0, v |-> 0, pkt |-> 0]

\* DspChannel::new: zeroed buffers.
DspChannel_new ==
    [do_not_decode |-> FALSE, floor |-> 0, residue |-> 0, overlap |-> ZeroOverlap]

\* Dsp of try_new, lines 95-102.
Dsp_new(n_channels) ==
    [lapping_state |-> None, channels |-> [c \in 0..n_channels-1 |-> DspChannel_new]]

\* A slip in Dsp::reset: the overlaps are zeroed, lapping_state is kept.
Dsp_reset_keeps_lapping(dsp) ==
    [lapping_state |-> dsp.lapping_state,
     channels |-> [c \in DOMAIN dsp.channels |->
                      [dsp.channels[c] EXCEPT !.overlap = ZeroOverlap]]]

\* Dsp::reset: lapping_state is cleared and every channel's overlap is zeroed.
Dsp_reset(dsp) ==
    [lapping_state |-> None,
     channels |-> [c \in DOMAIN dsp.channels |->
                      [dsp.channels[c] EXCEPT !.overlap = ZeroOverlap]]]

\* A slip in lines 160-165: the two flags are taken in the other order.
long_window_swapped(prev_window_flag, next_window_flag) ==
    CASE prev_window_flag = 0 /\ next_window_flag = 0 -> "short_long_short"
      [] prev_window_flag = 0 /\ next_window_flag = 1 -> "long_long_short"
      [] prev_window_flag = 1 /\ next_window_flag = 0 -> "short_long_long"
      [] prev_window_flag = 1 /\ next_window_flag = 1 -> "long_long_long"

\* Lines 160-165.
long_window(prev_window_flag, next_window_flag) ==
    CASE prev_window_flag = 0 /\ next_window_flag = 0 -> "short_long_short"
      [] prev_window_flag = 0 /\ next_window_flag = 1 -> "short_long_long"
      [] prev_window_flag = 1 /\ next_window_flag = 0 -> "long_long_short"
      [] prev_window_flag = 1 /\ next_window_flag = 1 -> "long_long_long"

\* Lines 152-172: (bs_exp, imdct, window) and the bit position after the flags.
decode_window(bytes, pos, mode, id) ==
    IF mode.block_flag
    THEN
        LET prev_window_flag == read_bit(bytes, pos) IN
        IF ~IsOk(prev_window_flag) THEN prev_window_flag
        ELSE
        LET next_window_flag == read_bit(bytes, prev_window_flag.val.pos) IN
        IF ~IsOk(next_window_flag) THEN next_window_flag
        ELSE Ok([bs_exp |-> id.bs1_exp, imdct |-> "imdct_long",
                 window |-> long_window(prev_window_flag.val.v, next_window_flag.val.v),
                 pos |-> next_window_flag.val.pos])
    ELSE Ok([bs_exp |-> id.bs0_exp, imdct |-> "imdct_short", window |-> "short",
             pos |-> pos])

(***************************************************************************)
(* A packet: `head` is its first byte (or no byte), which holds the packet *)
(* type, the mode number and the window flags. What the floors and the     *)
(* residues decode from the rest of the packet is given per channel:       *)
(*   floors[c]   FLOOR_ERROR: the read of the channel's floor fails,       *)
(*               FLOOR_UNUSED: the floor is unused in this packet,         *)
(*               v > 0: the floor is used and its curve is v;              *)
(*   residues[c] the value the residue decodes for a decoded channel;      *)
(*   residue_error: the submap (from 1) whose residue read fails, or 0.    *)
(***************************************************************************)
FLOOR_ERROR == 0 - 1

FLOOR_UNUSED == 0

\* Lines 183-198: the floor of channel c and of the channels after it. The
\* result holds the channels as the loop leaves them, the flags as the floors
\* were read, and whether a read failed.
RECURSIVE read_floor_channels(_, _, _, _)
read_floor_channels(chs, unused, c, packet) ==
    IF c \notin DOMAIN chs
    THEN [channels |-> chs, unused |-> unused, ok |-> TRUE]
    ELSE IF packet.floors[c] = FLOOR_ERROR
    THEN [channels |-> chs, unused |-> unused, ok |-> FALSE]
    ELSE IF packet.floors[c] = FLOOR_UNUSED
    THEN read_floor_channels([chs EXCEPT ![c].do_not_decode = TRUE],
                             [unused EXCEPT ![c] = TRUE], c + 1, packet)
    ELSE read_floor_channels([chs EXCEPT ![c].do_not_decode = FALSE,
                                         ![c].floor = packet.floors[c]],
                             [unused EXCEPT ![c] = FALSE], c + 1, packet)

\* Lines 204-214 on the channels.
propagate_channels(chs, couplings) ==
    LET flags == non_zero_propagate(couplings, [c \in DOMAIN chs |-> chs[c].do_not_decode])
    IN  [c \in DOMAIN chs |-> [chs[c] EXCEPT !.do_not_decode = flags[c]]]

\* Residue::read_residue for the channels of one submap: the residue of a
\* channel that is not decoded is zeroed, the others are decoded.
read_residue_channels(chs, residue_channels, packet) ==
    [c \in DOMAIN chs |->
        IF c \in residue_channels
        THEN [chs[c] EXCEPT !.residue = IF chs[c].do_not_decode THEN 0
                                        ELSE packet.residues[c]]
        ELSE chs[c]]

\* Lines 218-238: submap submap_idx (from 0) and the submaps after it.
RECURSIVE read_residues_of_submaps(_, _, _, _)
read_residues_of_submaps(chs, submap_idx, mapping, packet) ==
    IF submap_idx >= Len(mapping.submaps)
    THEN [channels |-> chs, ok |-> TRUE]
    ELSE
        LET residue_channels ==
                {c \in DOMAIN chs : mapping.multiplex[c + 1] = submap_idx}
        IN  IF packet.residue_error = submap_idx + 1
            THEN [channels |-> chs, ok |-> FALSE]
            ELSE read_residues_of_submaps(
                     read_residue_channels(chs, residue_channels, packet),
                     submap_idx + 1, mapping, packet)

\* Lines 242-278: inverse coupling, coupling by coupling.
RECURSIVE inverse_coupling(_, _)
inverse_coupling(chs, couplings) ==
    IF couplings = <<>> THEN chs
    ELSE
        LET coupling == Head(couplings)
            new == InverseCouple(chs[coupling.magnitude_ch].residue,
                                 chs[coupling.angle_ch].residue)
        IN  inverse_coupling([chs EXCEPT ![coupling.magnitude_ch].residue = new[1],
                                         ![coupling.angle_ch].residue = new[2]],
                             Tail(couplings))

\* Lines 282-291: floor times residue, into the floor buffer.
dot_product(chs) ==
    [c \in DOMAIN chs |->
        IF chs[c].do_not_decode THEN chs[c]
        ELSE [chs[c] EXCEPT !.floor = chs[c].floor * chs[c].residue]]

\* A slip in line 300: the previous block's quarter is left out.
render_len_current_only(prev_block_size, n) == n \div 4

\* Line 300: (prev_win.prev_block_size >> 2) + (n >> 2).
render_len(prev_block_size, n) == (prev_block_size \div 4) + (n \div 4)

\* Lines 294-302: the frames the output buffer holds.
render_reserved(lapping, n) ==
    IF lapping.kind = "Some" THEN render_len(lapping.val.prev_block_size, n) ELSE 0

Silence == [prev |-> 0, cur |-> 0]

\* DspChannel::synth: the block of the channel's spectrum is overlap-added to
\* the stored overlap into the output (if there is a previous block), and its
\* right half is stored as the new overlap.
synth_out(ch, frames) ==
    IF frames = 0 THEN Silence ELSE [prev |-> ch.overlap.v, cur |-> ch.floor]

synth_overlap(ch, n, pkt) == [n |-> n, v |-> ch.floor, pkt |-> pkt]

\* Lines 305-314: the output of the channels.
render_out(chs, frames) ==
    [c \in DOMAIN chs |->
        IF chs[c].do_not_decode THEN Silence ELSE synth_out(chs[c], frames)]

\* Lines 305-314: the channels after rendering.
render_channels(chs, n, pkt) ==
    [c \in DOMAIN chs |->
        IF chs[c].do_not_decode THEN chs[c]
        ELSE [chs[c] EXCEPT !.overlap = synth_overlap(chs[c], n, pkt)]]

AudioBuffer(frames, chans) == [frames |-> frames, chans |-> chans]

\* What a decode call that fails leaves and returns.
decode_failed(dsp, chs, e) ==
    [dsp |-> [dsp EXCEPT !.channels = chs], buf |-> e, n |-> 0,
     unused |-> [c \in DOMAIN dsp.channels |-> FALSE]]

\* Lines 240-322: inverse coupling, dot product, synthesis and the new
\* lapping state, for the channels chs as the residue decode leaves them.
decode_synthesis(dsp, mapping, n, window, unused, chs, frames, pkt) ==
    [dsp |-> [lapping_state |-> Some(LappingState(n, window)),
              channels |-> render_channels(chs, n, pkt)],
     buf |-> Ok(AudioBuffer(frames, render_out(chs, frames))),
     n |-> n,
     unused |-> unused]

\* Lines 216-238, then the rest of the call.
decode_residues(dsp, mapping, n, window, unused, residues, pkt) ==
    IF ~residues.ok
    THEN decode_failed(dsp, residues.channels, decode_error("vorbis: residue"))
    ELSE decode_synthesis(dsp, mapping, n, window, unused,
             dot_product(inverse_coupling(residues.channels, mapping.couplings)),
             render_reserved(dsp.lapping_state, n), pkt)

\* Lines 178-214, then the rest of the call.
decode_floors(dsp, mapping, n, window, floors, packet, pkt) ==
    IF ~floors.ok
    THEN decode_failed(dsp, floors.channels, decode_error("vorbis: floor"))
    ELSE decode_residues(dsp, mapping, n, window, floors.unused,
             read_residues_of_submaps(
                 propagate_channels(floors.channels, mapping.couplings),
                 0, mapping, packet),
             pkt)

\* Lines 152-176, then the rest of the call.
decode_block(dsp, mapping, win, packet, pkt) ==
    IF ~IsOk(win) THEN decode_failed(dsp, dsp.channels, win)
    ELSE decode_floors(dsp, mapping, Pow2(win.val.bs_exp), win.val.window,
             read_floor_channels(dsp.channels,
                 [c \in DOMAIN dsp.channels |-> FALSE], 0, packet),
             packet, pkt)

\* Lines 149-150, then the rest of the call.
decode_mode(tab, dsp, hdr, packet, pkt) ==
    IF ~IsOk(hdr) THEN decode_failed(dsp, dsp.channels, hdr)
    ELSE decode_block(dsp,
             tab.mappings[tab.modes[hdr.val.mode_number + 1].mapping + 1],
             decode_window(packet.head, hdr.val.pos,
                           tab.modes[hdr.val.mode_number + 1], tab.ident),
             packet, pkt)

\* decode (lines 131-323) of packet number pkt by a decoder with the tables
\* tab and the Dsp dsp: the Dsp after the call, the value returned, and for a
\* packet that decodes its block size and the floors that were read as unused.
decode(tab, dsp, packet, pkt) ==
    decode_mode(tab, dsp, decode_mode_number(packet.head, Len(tab.modes)), packet, pkt)

(***************************************************************************)
(* The decoders and the packets tried                                      *)
(***************************************************************************)
\* The decode calls made on one decoder.
MaxCalls == 3

\* Two channels, blocks of 64 and 8192 samples; mapping 0 couples the two
\* channels in one submap, mapping 1 gives each channel a submap of its own;
\* modes: short and long blocks on mapping 0, short blocks on mapping 1.
DecoderSetups ==
    { [ ident    |-> IdentHeader(2, 8000, 6, 13),
        modes    |-> << Mode(FALSE, 0, 0, 0), Mode(TRUE, 0, 0, 0), Mode(FALSE, 0, 0, 1) >>,
        mappings |-> << Mapping(<<ChannelCouple(0, 1)>>, <<0, 0>>, <<SubMap(0, 0)>>),
                        Mapping(<<>>, <<0, 1>>, <<SubMap(0, 0), SubMap(0, 1)>>) >> ] }

\* The first bytes tried: no byte, a packet that is not audio, mode numbers
\* 0 to 3 with window flags 0, and mode number 1 with the previous-window flag.
DecodeHeads == {<<>>, <<1>>, <<0>>, <<2>>, <<4>>, <<6>>, <<10>>}

FloorCurves == {1}

\* The residues decoded for the channels: equal signs, and opposite signs.
ResidueVectors(chans) ==
    { [c \in chans |-> 1], [c \in chans |-> IF c = 0 THEN 1 ELSE 0 - 1] }

\* The packets tried: a packet that ends after its first byte, a packet that
\* ends within the floor of a channel, and a packet whose floors are all read
\* (and whose residues are read, or fail in one submap).
Packets(tab) ==
    LET chans == 0..(tab.ident.n_channels - 1)
        read == {FLOOR_UNUSED} \cup FloorCurves
    IN  { [head |-> h, floors |-> [c \in chans |-> FLOOR_ERROR],
           residues |-> [c \in chans |-> 1], residue_error |-> 0] :
             h \in DecodeHeads }
        \cup
        { [head |-> h,
           floors |-> [c \in chans |-> IF c < last THEN f ELSE FLOOR_ERROR],
           residues |-> [c \in chans |-> 1], residue_error |-> 0] :
             h \in DecodeHeads, f \in read, last \in chans \ {0} }
        \cup
        [ head          : DecodeHeads,
          floors        : [chans -> read],
          residues      : ResidueVectors(chans),
          residue_error : UNION {0..Len(tab.mappings[i].submaps) : i \in DOMAIN tab.mappings} ]

Tables == [ident |-> ident, modes |-> modes, mappings |-> mappings]

TheDsp == [lapping_state |-> lapping_state, channels |-> channels]

\* try_new, lines 61-115, with the tables read from the headers.
Init ==
    /\ \E tab \in DecoderSetups :
          /\ ident = tab.ident
          /\ modes = tab.modes
          /\ mappings = tab.mappings
          /\ hist = [calls |-> 0, op |-> "new", prev_n |-> 0, n |-> 0,
                     unused |-> [c \in 0..(tab.ident.n_channels - 1) |-> FALSE],
                     idem |-> <<None, None>>, before |-> None, tables |-> tab]
    /\ lapping_state = Dsp_new(ident.n_channels).lapping_state
    /\ channels = Dsp_new(ident.n_channels).channels
    /\ buf = None
    /\ shadow = [dsp |-> Dsp_new(ident.n_channels), buf |-> None]
    /\ arg = None
    /\ ret = None
    /\ steps = 0

Running == buf.kind # "Panic"

\* decoder.decode(packet)
Decode ==
    /\ Running
    /\ hist.calls < MaxCalls
    /\ \E packet \in Packets(Tables) :
          \E r \in {decode(Tables, TheDsp, packet, hist.calls + 1)} :
          /\ lapping_state' = r.dsp.lapping_state
          /\ channels' = r.dsp.channels
          /\ buf' = r.buf
          /\ \E q \in {decode(Tables, shadow.dsp, packet, hist.calls + 1)} :
                shadow' = IF IsOk(r.buf) THEN [dsp |-> q.dsp, buf |-> q.buf]
                          ELSE shadow
          /\ hist' = IF IsOk(r.buf)
                     THEN [hist EXCEPT !.calls = @ + 1, !.op = "decode",
                                       !.prev_n = hist.n, !.n = r.n,
                                       !.unused = r.unused]
                     ELSE [hist EXCEPT !.calls = @ + 1, !.op = "decode"]
    /\ UNCHANGED <<ident, modes, mappings>>
    /\ UNCHANGED fnVars

\* decoder.reset(), lines 117-119
Reset ==
    /\ Running
    /\ hist.op # "reset"
    /\ lapping_state' = Dsp_reset(TheDsp).lapping_state
    /\ channels' = Dsp_reset(TheDsp).channels
    /\ shadow' = [shadow EXCEPT !.dsp = Dsp_reset(shadow.dsp)]
    /\ hist' = [hist EXCEPT !.op = "reset", !.prev_n = 0, !.n = 0]
    /\ UNCHANGED <<ident, modes, mappings, buf>>
    /\ UNCHANGED fnVars

\* decoder.reset(); decoder.decode(p1); decoder.reset(); decoder.decode(p1)
ResetDecodeTwice ==
    /\ Running
    /\ hist.calls + 2 <= MaxCalls
    /\ \E packet \in Packets(Tables) :
          \E r1 \in {decode(Tables, Dsp_reset(TheDsp), packet, hist.calls + 1)},
             s1 \in {decode(Tables, Dsp_reset(shadow.dsp), packet, hist.calls + 1)} :
          \E r2 \in {decode(Tables, Dsp_reset(r1.dsp), packet, hist.calls + 2)},
             s2 \in {decode(Tables, Dsp_reset(s1.dsp), packet, hist.calls + 2)} :
          /\ r1.buf.kind # "Panic"
          /\ lapping_state' = r2.dsp.lapping_state
          /\ channels' = r2.dsp.channels
          /\ buf' = r2.buf
          /\ shadow' = IF IsOk(r2.buf) THEN [dsp |-> s2.dsp, buf |-> s2.buf]
                       ELSE [shadow EXCEPT !.dsp = Dsp_reset(Dsp_reset(shadow.dsp))]
          /\ hist' = IF IsOk(r2.buf)
                     THEN [hist EXCEPT !.calls = @ + 2, !.op = "twice",
                                       !.prev_n = 0, !.n = r2.n, !.unused = r2.unused,
                                       !.idem = <<r1.buf, r2.buf>>,
                                       !.before = lapping_state]
                     ELSE [hist EXCEPT !.calls = @ + 2, !.op = "twice",
                                       !.prev_n = 0, !.n = 0,
                                       !.idem = <<r1.buf, r2.buf>>,
                                       !.before = lapping_state]
    /\ UNCHANGED <<ident, modes, mappings>>
    /\ UNCHANGED fnVars

Next == Decode \/ Reset \/ ResetDecodeTwice

Spec == Init /\ [][Next]_vars

(***************************************************************************)
(* Properties of decode and reset. hist records what the calls were:       *)
(*   calls   the decode calls made,                                        *)
(*   op      the last operation ("twice": reset, decode, reset, decode),   *)
(*   n       the block size of the last packet that decoded since          *)
(*           construction or the last reset (0: none),                     *)
(*   prev_n  the same for the packet that decoded before that one,         *)
(*   unused  the channels whose floor the last decoded packet read unused, *)
(*   idem    the values the two decodes of "twice" returned,               *)
(*   before  lapping_state before "twice",                                 *)
(*   tables  the tables at construction.                                   *)
(* shadow is a decoder that is given the same calls except the decode      *)
(* calls that fail.                                                        *)
(***************************************************************************)
Decoded == hist.op \in {"decode", "twice"} /\ IsOk(buf)

\* C1: a packet of block size n_cur decoded after a packet of block size
\* n_prev emits (n_prev + n_cur) / 4 samples per channel, and the first
\* packet decoded after construction or reset emits 0 samples.
C1_SamplesEmitted ==
    Decoded =>
        buf.val.frames = IF hist.prev_n = 0 THEN 0
                         ELSE (hist.prev_n + hist.n) \div 4

\* A short block decoded after a long block, with a failed call in between.
C1_Witness ==
    /\ Decoded
    /\ hist.calls = 3
    /\ hist.prev_n = 8192
    /\ hist.n = 64
    /\ buf.val.frames = 2064

\* C2: a decode call that fails leaves lapping_state and every channel's
\* overlap as they were, and every packet decoded later has the output it
\* has on a decoder that was never given the failed packets.
C2_FailedDecodeLeavesNoTrace ==
    /\ [][ (hist'.op = "decode" /\ IsErr(buf')) =>
              /\ lapping_state' = lapping_state
              /\ \A c \in DOMAIN channels :
                    channels'[c].overlap = channels[c].overlap ]_vars
    /\ [](Decoded => buf = shadow.buf)

\* C4: a channel whose floor is read as unused in a packet is silent in
\* that packet's output, also when it is coupled to a channel whose floor
\* is used.
C4_UnusedFloorIsSilent ==
    Decoded =>
        \A c \in DOMAIN channels :
            hist.unused[c] => buf.val.chans[c] = Silence

\* C5: reset, decode(p1), reset, decode(p1) returns what reset, decode(p1)
\* returns; the first packet decoded after a reset returns an empty buffer;
\* the tables are those of construction.
C5_ResetIdempotent ==
    /\ Tables = hist.tables
    /\ hist.op = "twice" => hist.idem[1] = hist.idem[2]
    /\ (Decoded /\ hist.prev_n = 0) =>
          /\ buf.val.frames = 0
          /\ \A c \in DOMAIN channels : buf.val.chans[c] = Silence

\* The two decodes of a packet that decodes, each after a reset of a decoder
\* that had a previous block and a floor curve in its buffers.
C5_Witness ==
    /\ hist.op = "twice"
    /\ IsOk(buf)
    /\ IsOk(hist.idem[1])
    /\ hist.before.kind = "Some"
    /\ \E c \in DOMAIN channels : channels[c].floor # 0
    /\ lapping_state.kind = "Some"

\* C9: after a packet is decoded, every channel's overlap is of that packet
\* and of the block size recorded in lapping_state; for a channel that was
\* not decoded in the packet, whose block is silence, a zero overlap counts
\* as the right half of its block.
C9_OverlapOfCurrentPacket ==
    Decoded =>
        /\ lapping_state.kind = "Some"
        /\ \A c \in DOMAIN channels :
              \/ /\ channels[c].overlap.n = lapping_state.val.prev_block_size
                 /\ channels[c].overlap.pkt = hist.calls
              \/ /\ channels[c].do_not_decode
                 /\ channels[c].overlap.v = 0

(***************************************************************************)
(* decode, section 4.3.1: block size and window (lines 152-176)            *)
(***************************************************************************)
\* The block size exponents of the identification headers tried.
WindowIdents == { IdentHeader(2, 8000, 6, 13), IdentHeader(1, 44100, 8, 11) }

\* The bit positions after the mode number: 1 + ilog(modes.len() - 1), where
\* modes.len() is at most 64.
WindowPositions == 1..(1 + ilog(MaxModes - 1))

InitWindow ==
    /\ arg \in [packet : PacketHeads, pos : WindowPositions,
                 block_flag : BOOLEAN, id : WindowIdents]
    /\ ret = None
    /\ steps = 0
    /\ DecoderIdle

DecodeWindow ==
    /\ steps = 0
    /\ ret' = decode_window(arg.packet, arg.pos,
                            Mode(arg.block_flag, 0, 0, 0), arg.id)
    /\ steps' = 1
    /\ UNCHANGED <<arg>>
    /\ UNCHANGED decVars

NextWindow == DecodeWindow

SpecWindow == InitWindow /\ [][NextWindow]_vars

\* The packet holds the two flag bits after position a.pos.
HasWindowFlags(a) == a.pos + 2 <= 8 * Len(a.packet)

\* Flag number k (0: prev_flag, 1: next_flag) of the packet.
WindowFlagOf(a, k) == (a.packet[1] \div Pow2(a.pos + k)) % 2

\* The 2x2 table of the long windows.
LongWindowTable ==
    << <<"short_long_short", "short_long_long">>,
       <<"long_long_short", "long_long_long">> >>

\* C11: with block_flag set decode reads exactly two bits (prev_flag,
\* next_flag) and uses exponent bs1, the long IMDCT and the window the 2x2
\* table gives for the flags; with block_flag clear it reads no bit and uses
\* exponent bs0, the short IMDCT and the short window.
C11_BlockSizeAndWindow ==
    steps = 1 =>
        /\ (arg.block_flag /\ HasWindowFlags(arg)) =>
              ret = Ok([bs_exp |-> arg.id.bs1_exp, imdct |-> "imdct_long",
                        window |-> LongWindowTable[WindowFlagOf(arg, 0) + 1]
                                                  [WindowFlagOf(arg, 1) + 1],
                        pos |-> arg.pos + 2])
        /\ ~arg.block_flag =>
              ret = Ok([bs_exp |-> arg.id.bs0_exp, imdct |-> "imdct_short",
                        window |-> "short", pos |-> arg.pos])

\* A long block whose flags differ: prev_flag 1, next_flag 0.
C11_Witness ==
    /\ steps = 1
    /\ arg.block_flag
    /\ HasWindowFlags(arg)
    /\ WindowFlagOf(arg, 0) = 1
    /\ WindowFlagOf(arg, 1) = 0
    /\ IsOk(ret)
    /\ ret.val.window = "long_long_short"
    /\ ret.val.pos = arg.pos + 2

(***************************************************************************)
(* decode, section 4.3.5: inverse coupling on the residue vectors          *)
(* (lines 240-278). residues[c] is the residue buffer of channel c; entry  *)
(* i (from 0) of the source is element i + 1 of the sequence.              *)
(***************************************************************************)
\* slice.split_at_mut(mid) of a slice of len elements that starts at element
\* lo of the channels: the two slices, as ranges of channel indices.
split_at_mut(lo, len, mid) ==
    << [lo |-> lo, len |-> mid], [lo |-> lo + mid, len |-> len - mid] >>

\* slice[i]: the channel it names, or the panic of an index out of bounds.
slice_index(slice, i) ==
    IF i < slice.len THEN Ok(slice.lo + i) ELSE Panic("index out of bounds")

\* A slip in lines 246-255: the channel of the smaller index is always taken
\* as the magnitude channel.
coupled_channels_by_index(coupling, n_channels) ==
    IF coupling.magnitude_ch < coupling.angle_ch
    THEN [magnitude_ch |-> Ok(coupling.magnitude_ch), angle_ch |-> Ok(coupling.angle_ch)]
    ELSE [magnitude_ch |-> Ok(coupling.angle_ch), angle_ch |-> Ok(coupling.magnitude_ch)]

\* Lines 246-255: the channels the two mutable references point to.
coupled_channels(coupling, n_channels) ==
    IF coupling.magnitude_ch < coupling.angle_ch
    THEN LET ab == split_at_mut(0, n_channels, coupling.angle_ch)
         IN  [magnitude_ch |-> slice_index(ab[1], coupling.magnitude_ch),
              angle_ch |-> slice_index(ab[2], 0)]
    ELSE LET ab == split_at_mut(0, n_channels, coupling.magnitude_ch)
         IN  [magnitude_ch |-> slice_index(ab[2], 0),
              angle_ch |-> slice_index(ab[1], coupling.angle_ch)]

\* Lines 257-277: the loop over the first n2 entries of the two residues.
couple_residues(residues, m_ch, a_ch, n2) ==
    [c \in DOMAIN residues |->
        [i \in DOMAIN residues[c] |->
            IF i - 1 < n2 /\ c = m_ch
            THEN InverseCouple(residues[m_ch][i], residues[a_ch][i])[1]
            ELSE IF i - 1 < n2 /\ c = a_ch
            THEN InverseCouple(residues[m_ch][i], residues[a_ch][i])[2]
            ELSE residues[c][i]]]

\* Lines 242-278: the couplings in order; the panic of a slice index ends it.
RECURSIVE inverse_coupling_residues(_, _, _)
inverse_coupling_residues(residues, couplings, n2) ==
    IF couplings = <<>> THEN Ok(residues)
    ELSE
        LET chs == coupled_channels(Head(couplings), Cardinality(DOMAIN residues)) IN
        IF ~IsOk(chs.magnitude_ch) THEN chs.magnitude_ch
        ELSE IF ~IsOk(chs.angle_ch) THEN chs.angle_ch
        ELSE inverse_coupling_residues(
                 couple_residues(residues, chs.magnitude_ch.val, chs.angle_ch.val, n2),
                 Tail(couplings), n2)

\* The entries of a residue buffer.
MaxResidueLen == 2

ResidueChannels == 0..2

ResidueValues == {0 - 1, 0, 1}

InitInverseCoupling ==
    /\ arg \in [ residues  : [ResidueChannels -> [1..MaxResidueLen -> ResidueValues]],
                 couplings : SeqsUpTo(ValidCouples(Cardinality(ResidueChannels)), MaxCouplings),
                 n2        : 1..MaxResidueLen ]
    /\ ret = None
    /\ steps = 0
    /\ DecoderIdle

InverseCoupling ==
    /\ steps = 0
    /\ ret' = inverse_coupling_residues(arg.residues, arg.couplings, arg.n2)
    /\ steps' = 1
    /\ UNCHANGED <<arg>>
    /\ UNCHANGED decVars

NextInverseCoupling == InverseCoupling

SpecInverseCoupling == InitInverseCoupling /\ [][NextInverseCoupling]_vars

\* The sign-quadrant rule.
QuadrantRule(m, a) ==
    CASE m > 0 /\ a > 0   -> <<m, m - a>>
      [] m > 0 /\ a <= 0  -> <<m + a, m>>
      [] m <= 0 /\ a > 0  -> <<m, m + a>>
      [] m <= 0 /\ a <= 0 -> <<m - a, m>>

\* The residues after the first k couplings: entry i < n2 of the magnitude
\* channel holds the first component of the rule and that of the angle
\* channel the second, everything else is as before the coupling.
RECURSIVE ResiduesAfter(_, _)
ResiduesAfter(a, k) ==
    IF k = 0 THEN a.residues
    ELSE
        LET before == ResiduesAfter(a, k - 1)
            couple == a.couplings[k]
        IN  [c \in ResidueChannels |->
                [i \in 1..MaxResidueLen |->
                    IF i > a.n2 \/ c \notin {couple.magnitude_ch, couple.angle_ch}
                    THEN before[c][i]
                    ELSE QuadrantRule(before[couple.magnitude_ch][i],
                                      before[couple.angle_ch][i])
                             [IF c = couple.magnitude_ch THEN 1 ELSE 2]]]

\* The channels of the couplings.
ChannelsCoupled(a) ==
    {a.couplings[k].magnitude_ch : k \in DOMAIN a.couplings}
        \cup {a.couplings[k].angle_ch : k \in DOMAIN a.couplings}

\* C12: coupling by coupling, the entries below n/2 of the magnitude and the
\* angle channel are rewritten with the sign-quadrant rule, first component
\* to the magnitude channel and second to the angle channel whichever index
\* is smaller; the entries from n/2 on and the channels outside the
\* couplings are unchanged.
C12_InverseCouplingInPlace ==
    steps = 1 =>
        /\ ret = Ok(ResiduesAfter(arg, Len(arg.couplings)))
        /\ \A c \in ResidueChannels : \A i \in 1..MaxResidueLen :
              (i > arg.n2 \/ c \notin ChannelsCoupled(arg)) =>
                  ret.val[c][i] = arg.residues[c][i]

\* A coupling whose magnitude channel has the larger index, on a block
\* shorter than the buffers, with a channel outside the coupling: the two
\* channels change below n/2 and nothing else does.
C12_Witness ==
    /\ steps = 1
    /\ IsOk(ret)
    /\ arg.couplings = <<ChannelCouple(2, 0)>>
    /\ arg.n2 < MaxResidueLen
    /\ arg.residues[2][1] = 1
    /\ arg.residues[0][1] = 0 - 1
    /\ ret.val[2][1] = 0
    /\ ret.val[0][1] = 1
    /\ arg.residues[1][1] # 0
    /\ arg.residues[0][MaxResidueLen] # 0

(***************************************************************************)
(* read_setup: the codebook bound of the floors and the residues           *)
(* (lines 456-466 and 491-494), on setup headers with every codebook count *)
(***************************************************************************)
\* Line 492: the codebook count is a field of 8 bits, plus one.
CodebookCountBits == 8

\* The codebook numbers tried in the floor and in the residue.
BookNumbers == {0, 1, 255}

\* The reads of a setup header for one channel with count_field + 1 well
\* formed codebooks, one time domain transform, one floor of type 1, one
\* residue of type 2, one mapping without couplings and one mode.
SetupHeaderOf(count_field, floor_book, residue_book) ==
    << VORBIS_PACKET_TYPE_SETUP, VORBIS_HEADER_PACKET_SIGNATURE, count_field >>
    \o [i \in 1..(count_field + 1) |-> 1]
    \o << 0, 0,  0, 1, floor_book,  0, 2, residue_book >>
    \o << 0, 0, 0, 0, 0, 0, 0, 0 >>
    \o << 0, 1, 0, 0, 0 >>
    \o << 1 >>

InitCodebooks ==
    /\ arg \in [ codebook_count : 0..(Pow2(CodebookCountBits) - 1),
                 floor_book     : BookNumbers,
                 residue_book   : BookNumbers ]
    /\ ret = None
    /\ steps = 0
    /\ DecoderIdle

\* read_setup on the header: the codebooks it parses, the bound it gives to
\* the floors and the residues, and what it returns.
ReadSetupCodebooks ==
    /\ steps = 0
    /\ \E fs \in {SetupHeaderOf(arg.codebook_count, arg.floor_book, arg.residue_book)} :
       \E codebooks \in {read_codebooks(fs, 3)} :
          ret' = [ codebooks     |-> codebooks,
                   max_codebook  |-> IF IsOk(codebooks)
                                     THEN codebooks_len_as_u8(codebooks.val.v)
                                     ELSE 0,
                   setup         |-> read_setup(fs, 1) ]
    /\ steps' = 1
    /\ UNCHANGED <<arg>>
    /\ UNCHANGED decVars

NextCodebooks == ReadSetupCodebooks

SpecCodebooks == InitCodebooks /\ [][NextCodebooks]_vars

\* C13: for every codebook count from 1 to 256 the bound that read_setup
\* gives to the floors and the residues is the number of codebooks parsed,
\* so a header is accepted exactly when its floor and residue books are
\* below the number of codebooks.
C13_CodebookBoundIsCount ==
    steps = 1 =>
        /\ IsOk(ret.codebooks)
        /\ Len(ret.codebooks.val.v) = arg.codebook_count + 1
        /\ ret.max_codebook = Len(ret.codebooks.val.v)
        /\ IsOk(ret.setup) <=> /\ arg.floor_book < arg.codebook_count + 1
                               /\ arg.residue_book < arg.codebook_count + 1

====
